---- MODULE Spec2Model ----
(***************************************************************************)
(* The graylog (GELF over UDP) client of jessecarl/talks, in its three     *)
(* restatements:                                                           *)
(*   "alloc"  reduce-reuse-recycle/reduce.go lines 1-138: a bytes.Buffer   *)
(*            and a gzip.Writer allocated by every Write;                  *)
(*   "mux"    reduce-reuse-recycle/reduce.go lines 140-287: one buffer and *)
(*            one gzip.Writer in the Client, guarded by writeMux;          *)
(*   "pool"   unnamed/part_000: messages (buffer, gzip.Writer, id) kept in *)
(*            a sync.Pool.                                                 *)
(* Goroutines calling Client.Write are the writers; every step that        *)
(* touches state shared between goroutines is one action.                  *)
(*                                                                         *)
(* compress/gzip is a library: the compressed form of a payload is the     *)
(* uninterpreted byte string Gz(payload), known by its length only.  Bytes *)
(* of an accumulator are written as segments [src, lo, hi): the bytes      *)
(* lo..hi-1 of Gz(src).                                                    *)
(***************************************************************************)
EXTENDS Integers, Sequences, FiniteSets, TLC

\* ---------------------------------------------------------------- bounds
NumWriters == 2      \* goroutines calling Write concurrently
MaxCalls == 2        \* Write calls made in one behaviour, over all writers
MaxCapacity == 2     \* the largest capacity NewWriter is called with
MaxRequests == 2     \* writer.Write calls made in one behaviour

\* ------------------------------------------------------ program constants
mtuSize == 1500
maxChunkSize == 1420
maxChunkCount == 128
gelfMagicByteA == 30
gelfMagicByteB == 15
Uint8 == 256       \* the values of a byte
Uint16 == 65536    \* the values of one half of a uint32

Writers == 1..NumWriters
Variants == {"alloc", "mux", "pool"}

\* ----------------------------------------------------------------- inputs
\* A payload p []byte is described by the runs of its bytes: `lead` white
\* space bytes, `body` bytes that start and end with a non-space byte,
\* `trail` white space bytes of which the last is "\n" iff `nl`; `z` is the
\* length of the gzip stream of the body (header and trailer included, so
\* it is never 0).
Payload(lead, body, trail, nl, z) ==
  [lead |-> lead, body |-> body, trail |-> trail, nl |-> nl, z |-> z]

Payloads ==
  { Payload(0, 0, 0, FALSE, 23),          \* ""
    Payload(0, 3, 0, FALSE, 26),          \* "abc"
    Payload(0, 1397, 1, TRUE, 1420),      \* one full chunk
    Payload(1, 1398, 2, TRUE, 1421),      \* one full chunk and one byte
    Payload(0, 181738, 1, TRUE, 181761) } \* 128 full chunks and one byte

\* A length that is never 0: Write without its check of len(p).
LenNeverZero(p) == 1

\* len(p)
Len_(p) == p.lead + p.body + p.trail

\* A suffix test that always passes: Write without its check of the newline.
HasSuffixAlways(p) == TRUE

\* bytes.HasSuffix(p, []byte("\n"))
HasSuffixNewline(p) == p.trail > 0 /\ p.nl

\* No trimming: the whole of p goes to the compressor.
TrimNone(p) == Len_(p)

\* len(bytes.TrimFunc(p, unicode.IsSpace))
TrimFunc(p) == p.body

\* ------------------------------------------------------------------ state
VARIABLES
  variant,       \* which restatement of the client this behaviour runs
  instanceID,    \* Client.instanceID [4]byte
  messageCount,  \* Client.messageCount uint32, as [hi, lo]: hi * 2^16 + lo
  countMux,      \* Client.countMux: 0 when unlocked, else the writer holding it
  writeMux,      \* Client.writeMux ("mux"): 0 when unlocked, else its holder
  msgPool,       \* Client.msgPool ("pool"): the messages lying in the pool
  res,           \* the encoding resources: [buf, zip, id] by resource number
  pc,            \* where each writer is in its Write call
  p,             \* the argument of each writer's Write call
  msg,           \* "pool": the message the writer got from the pool, else 0
  id,            \* the value messageID() returned to the writer's call
  seen,          \* messageCount as read by the writer inside countMux
  n, err,        \* what the call returns (at "ret"), or is about to
  count, i,      \* the chunk count and the loop index of the call
  conn,          \* every conn.WriteTo call so far, in order, with its outcome
  minted,        \* every id returned by messageID() so far, in order
  calls,         \* the number of Write calls made so far
  config,        \* the Config handed to New
  client,        \* what New returned: "gl", "nil", or "none" before the call
  newErr,        \* the error New returned
  writer         \* the worker-pool writer, its workers and its callers

\* What New is called with and returns: a Write call leaves it alone.
cvars == <<config, client, newErr>>

\* The worker-pool writer of workers.go, which no Client call touches.
wvars == <<writer>>

\* The Client, its writers and its construction.
gvars == <<variant, instanceID, messageCount, countMux, writeMux, msgPool, res,
           pc, p, msg, id, seen, n, err, count, i, conn, minted, calls, cvars>>

vars == <<gvars, wvars>>

\* ------------------------------------------- the worker-pool writer's parts
\* NewWriter's capacity: the number of workers it started
capacity == writer.capacity

\* writer.ch has been closed
chClosed == writer.chClosed

\* writer.wg: the workers that have not returned
wg == writer.wg

\* Where each worker is in its loop
kpc == writer.kpc

\* The worker's arg: the writeArgs it received
karg == writer.karg

\* The worker's res: writeResults{n, err}
kres == writer.kres

\* The worker's buf: what the bufio.Writer holds, and its err
kbuf == writer.kbuf

\* Where each caller is in its writer.Write call
cpc == writer.cpc

\* The writeArgs{p, resCh} of the caller's call
carg == writer.carg

\* What the caller's call received and returns
cres == writer.cres

\* By request: the Write calls made on uw with its bytes
uw == writer.uw

\* Where the calls of writer.Close are: "idle" (none made), "wait" (the
\* first is in w.wg.Wait()), "closed" (it has returned), "panic" (a further
\* call has panicked in close(w.ch))
closer == writer.closer

\* The number of writer.Write calls made so far
nreq == writer.nreq

\* By request: the workers that received it from writer.ch
taken == writer.taken

\* By request: the results its caller received on resCh
given == writer.given

\* ----------------------------------------------------------- accumulators
ZeroID == <<0, 0, 0, 0, 0, 0, 0, 0>>

Seg(src, lo, hi) == [src |-> src, lo |-> lo, hi |-> hi]

\* bytes.Buffer.Len
RECURSIVE BufLen(_)
BufLen(b) == IF b = <<>> THEN 0 ELSE (Head(b).hi - Head(b).lo) + BufLen(Tail(b))

\* The first k bytes of b (k <= BufLen(b)).
RECURSIVE Take(_, _)
Take(b, k) ==
  IF k = 0 \/ b = <<>> THEN <<>>
  ELSE LET s == Head(b)
           l == s.hi - s.lo
       IN IF l <= k THEN <<s>> \o Take(Tail(b), k - l)
          ELSE <<Seg(s.src, s.lo, s.lo + k)>>

\* b without its first k bytes.
RECURSIVE Drop(_, _)
Drop(b, k) ==
  IF k = 0 \/ b = <<>> THEN b
  ELSE LET s == Head(b)
           l == s.hi - s.lo
       IN IF l <= k THEN Drop(Tail(b), k - l)
          ELSE <<Seg(s.src, s.lo + k, s.hi)>> \o Tail(b)

Min(a, b) == IF a < b THEN a ELSE b

\* A read that takes no account of len(chunk): all the buffer holds.
BufReadAll(b, k) == [data |-> b, rest |-> <<>>]

\* A read that leaves the bytes it returns in the buffer.
BufReadPeek(b, k) ==
  [data |-> Take(b, Min(k, BufLen(b))), rest |-> b]

\* bytes.Buffer.Read(chunk) with len(chunk) = k: the bytes read (at most k,
\* none and io.EOF when the buffer is empty) and the buffer left.
BufRead(b, k) ==
  LET got == Min(k, BufLen(b))
  IN [data |-> Take(b, got), rest |-> Drop(b, got)]

\* A new(message) / a fresh bytes.Buffer with gzip.NewWriterLevel(&buf, ..).
NewResource == [buf |-> <<>>, zip |-> "open", id |-> ZeroID]

\* A release that forgets buf.Reset().
ResetZipOnly(r) == [r EXCEPT !.zip = "open"]

\* buf.Reset(); zip.Reset(&buf): the deferred function of the "mux" Write.
ResetResource(r) == [r EXCEPT !.buf = <<>>, !.zip = "open"]

\* freeMessage: buf.Reset(); zip.Reset(&buf); copy(msg.id[0:8], make([]byte, 8)).
FreeResource(r) == [ResetResource(r) EXCEPT !.id = ZeroID]

\* ------------------------------------------------------------- messageID
\* A uint32 is kept as its two 16-bit halves (2^32 is beyond the integers of
\* the model checker): U32(hi, lo) is hi * 2^16 + lo.
U32(hi, lo) == [hi |-> hi, lo |-> lo]

\* binary.LittleEndian.PutUint32
PutUint32(c) ==
  << c.lo % Uint8, c.lo \div Uint8, c.hi % Uint8, c.hi \div Uint8 >>

\* A counter that stops at its greatest value instead of wrapping.
NextCountSaturating(c) ==
  IF c.lo + 1 < Uint16 THEN U32(c.hi, c.lo + 1)
  ELSE IF c.hi + 1 < Uint16 THEN U32(c.hi + 1, 0)
  ELSE c

\* gl.messageCount++ on a uint32: the carry runs from the low half into the
\* high half and is dropped at 2^32.
NextCount(c) ==
  IF c.lo + 1 < Uint16 THEN U32(c.hi, c.lo + 1)
  ELSE U32((c.hi + 1) % Uint16, 0)

\* The id messageID() builds from the counter value it has just stored.
MessageIDOf(tag, c) == tag \o PutUint32(c)

\* A Lock that does not wait.
CanLockAlways(m) == TRUE

\* sync.Mutex: Lock returns only when the mutex is unlocked.
CanLock(m) == m = 0

\* A return that leaves the mutex with its holder.
UnlockForgotten(m) == m

\* sync.Mutex.Unlock: the mutex after its holder released it.
Unlock(m) == 0

\* ------------------------------------------------------------ chunk count
\* A chunk count that takes one more chunk whatever the remainder.
ChunkCountPlusOne(length) == (length \div maxChunkSize) + 1

\* count, rem := length/maxChunkSize, length%maxChunkSize; if rem > 0 { count++ }
ChunkCount(length) ==
  (length \div maxChunkSize) + (IF length % maxChunkSize > 0 THEN 1 ELSE 0)

\* A Write without the check of the chunk count.
ExceedsNever(c) == FALSE

\* if count > maxChunkCount { return 0, "message exceeds maximum size" }
ExceedsMaximum(c) == c > maxChunkCount

\* ------------------------------------------------------ worker-pool writer
Workers == 1..MaxCapacity

Requests == 1..MaxRequests

\* The calls of writer.Write, each with the number of its request: one
\* goroutine may make several of them one after the other, or each its own.
Callers == Requests

\* bufio.NewWriter(uw): a buffer of bufio's default size.
defaultBufSize == 4096

\* len(p) of the payloads writer.Write is called with: "foo\n", and one
\* byte more than a worker's buffer holds.
Lens == {4, defaultBufSize + 1}

\* The zero value of writeResults.
ZeroResults == [n |-> 0, err |-> "nil"]

\* The zero value of writeArgs (resCh 0: no channel).
ZeroArgs == [p |-> [req |-> 0, len |-> 0], resCh |-> 0]

\* A bufio.Writer with nothing buffered and no error: after NewWriter or
\* Reset.  held is the request whose bytes are buffered (0: none).
EmptyBuf == [held |-> 0, len |-> 0, err |-> "nil"]

\* The writer NewWriter(cap, uw) returns: cap workers started, each in front
\* of `for arg := range ch`, nothing called yet.
NewWriter(cap) ==
  [capacity |-> cap,
   chClosed |-> FALSE,
   wg |-> cap,
   kpc |-> [k \in Workers |-> IF k <= cap THEN "recv" ELSE "none"],
   karg |-> [k \in Workers |-> ZeroArgs],
   kres |-> [k \in Workers |-> ZeroResults],
   kbuf |-> [k \in Workers |-> EmptyBuf],
   cpc |-> [c \in Callers |-> "idle"],
   carg |-> [c \in Callers |-> ZeroArgs],
   cres |-> [c \in Callers |-> ZeroResults],
   uw |-> [r \in Requests |-> <<>>],
   closer |-> "idle",
   nreq |-> 0,
   taken |-> [r \in Requests |-> {}],
   given |-> [r \in Requests |-> <<>>]]

\* No worker-pool writer runs: no worker, no call.
NoWriter == writer = NewWriter(0)

\* -------------------------------------------------------------------- New
\* rand.Read(gl.instanceID[0:4]): some four bytes.
InstanceIDs == { <<222, 173, 190, 239>> }

\* messageCount after New: the zero value of a uint32.
ZeroCount == U32(0, 0)

\* The resource of the "mux" Client: gl.zip over gl.buf.
GlRes == 1

\* compress/gzip: the levels New compares c.CompressionLevel with.
DefaultCompression == -1
NoCompression == 0
BestSpeed == 1
BestCompression == 9

\* The compression levels a Config is tried with: those New accepts, and two
\* below and one above them.
Levels == (DefaultCompression - 2) .. (BestCompression + 1)

\* Config{CompressionLevel, ServerAddr, ClientPacketConn}; an interface
\* value is "nil" or not.
Configs ==
  [CompressionLevel : Levels, ServerAddr : {"nil", "addr"},
   ClientPacketConn : {"nil", "conn"}]

\* The Config of the client the writers share.
DefaultConfig ==
  [CompressionLevel |-> DefaultCompression, ServerAddr |-> "addr",
   ClientPacketConn |-> "conn"]

\* The level passes the second check of New.
ValidLevel(l) ==
  ~(/\ l # NoCompression
    /\ l # DefaultCompression
    /\ (l > BestCompression \/ l < BestSpeed))

\* New(c), rand.Read succeeding (randOK) or not: the client and the error.
New(c, randOK) ==
  IF c.ClientPacketConn = "nil" THEN [client |-> "nil", err |-> "ErrNoConn"]
  ELSE IF ~ValidLevel(c.CompressionLevel)
    THEN [client |-> "nil", err |-> "ErrLevel"]
  ELSE IF ~randOK THEN [client |-> "nil", err |-> "ErrRand"]
  ELSE [client |-> "gl", err |-> "nil"]

\* No Write call has been made: every writer is idle, nothing was sent.
NoCall ==
  /\ countMux = 0
  /\ writeMux = 0
  /\ msgPool = {}
  /\ res = [r \in Writers |-> NewResource]
  /\ pc = [w \in Writers |-> "idle"]
  /\ p = [w \in Writers |-> Payload(0, 0, 0, FALSE, 23)]
  /\ msg = [w \in Writers |-> 0]
  /\ id = [w \in Writers |-> ZeroID]
  /\ seen = [w \in Writers |-> ZeroCount]
  /\ n = [w \in Writers |-> 0]
  /\ err = [w \in Writers |-> "nil"]
  /\ count = [w \in Writers |-> 0]
  /\ i = [w \in Writers |-> 0]
  /\ conn = <<>>
  /\ minted = <<>>
  /\ calls = 0

\* The client New returns, its counter at c.
InitAt(c) ==
  /\ NoWriter
  /\ config = DefaultConfig
  /\ client = New(config, TRUE).client
  /\ newErr = New(config, TRUE).err
  /\ variant \in Variants
  /\ instanceID \in InstanceIDs
  /\ messageCount = c
  /\ NoCall

Init == InitAt(ZeroCount)

\* ------------------------------------------------------------------ Write
\* The resource writer w's call works on: its own locals ("alloc"), the
\* Client's ("mux"), the message it got from the pool ("pool").
Using(w) ==
  CASE variant = "alloc" -> w
    [] variant = "mux" -> GlRes
    [] OTHER -> msg[w]

\* A return that runs no deferred function.
ExitPCNoDefer == "ret"

\* Where a return statement of the call leads: to the deferred function
\* ("mux": reset and unlock; "pool": freeMessage), or straight to the caller.
ExitPC == IF variant = "alloc" THEN "ret" ELSE "free"

\* A "mux" Write that goes to the compressor without gl.writeMux.Lock().
EntryPCNoLock == IF variant = "pool" THEN "get" ELSE "compress"

\* Where the call goes once the payload passed the two checks at its top.
EntryPC ==
  CASE variant = "alloc" -> "compress"
    [] variant = "mux" -> "lock"
    [] OTHER -> "get"

\* Write(p), up to its first touch of shared state: the two checks
\*   if len(p) == 0 { return 0, nil }
\*   if !bytes.HasSuffix(p, []byte("\n")) { return 0, ErrMissingNewline }
Write(w, q) ==
  /\ client = "gl"
  /\ UNCHANGED <<cvars, wvars>>
  /\ pc[w] \in {"idle", "ret"}
  /\ calls < MaxCalls
  /\ calls' = calls + 1
  /\ p' = [p EXCEPT ![w] = q]
  /\ n' = [n EXCEPT ![w] = 0]
  /\ count' = [count EXCEPT ![w] = 0]
  /\ i' = [i EXCEPT ![w] = 0]
  /\ id' = [id EXCEPT ![w] = ZeroID]
  /\ IF Len_(q) = 0
       THEN /\ err' = [err EXCEPT ![w] = "nil"]
            /\ pc' = [pc EXCEPT ![w] = "ret"]
       ELSE IF ~HasSuffixNewline(q)
         THEN /\ err' = [err EXCEPT ![w] = "ErrMissingNewline"]
              /\ pc' = [pc EXCEPT ![w] = "ret"]
         ELSE /\ err' = [err EXCEPT ![w] = "nil"]
              /\ pc' = [pc EXCEPT ![w] = EntryPC]
  /\ UNCHANGED <<variant, instanceID, messageCount, countMux, writeMux, msgPool,
                 res, msg, seen, conn, minted>>

\* gl.writeMux.Lock()
LockWrite(w) ==
  /\ UNCHANGED <<cvars, wvars>>
  /\ pc[w] = "lock"
  /\ CanLock(writeMux)
  /\ writeMux' = w
  /\ pc' = [pc EXCEPT ![w] = "compress"]
  /\ UNCHANGED <<variant, instanceID, messageCount, countMux, msgPool, res, p,
                 msg, id, seen, n, err, count, i, conn, minted, calls>>

\* The messages some writer has in hand.
InHand == { msg[v] : v \in Writers } \ {0}

\* The number under which a message made by msgPool.New is kept: the least
\* one no writer has in hand.  A pooled message of that number is one the
\* pool has dropped, as a sync.Pool may drop any message at any time.
NewNumber == CHOOSE r \in Writers \ InHand : \A o \in Writers \ InHand : r <= o

\* What msgPool.Get() may return: a message lying in the pool, or the result
\* of New.  fresh tells which.
PoolGet(pool, r, fresh) == IF fresh THEN r = NewNumber ELSE r \in pool

\* A Get that leaves the message it returns in the pool.
PoolTakeKeep(pool, r) == pool

\* The pool once Get has returned message r: r is in the caller's hands only.
PoolTake(pool, r) == pool \ {r}

\* newMessage, first line: msg := gl.msgPool.Get().(*message)
Get(w) ==
  /\ UNCHANGED <<cvars, wvars>>
  /\ pc[w] = "get"
  /\ \E fresh \in BOOLEAN, r \in Writers :
       /\ PoolGet(msgPool, r, fresh)
       /\ msgPool' = PoolTake(msgPool, r)
       /\ msg' = [msg EXCEPT ![w] = r]
       /\ res' = IF fresh THEN [res EXCEPT ![r] = NewResource] ELSE res
  /\ pc' = [pc EXCEPT ![w] = "messageID"]
  /\ UNCHANGED <<variant, instanceID, messageCount, countMux, writeMux, p, id,
                 seen, n, err, count, i, conn, minted, calls>>

\* messageID, to the read of the counter: gl.countMux.Lock(); gl.messageCount
LockCount(w) ==
  /\ UNCHANGED <<cvars, wvars>>
  /\ pc[w] = "messageID"
  /\ CanLock(countMux)
  /\ countMux' = w
  /\ seen' = [seen EXCEPT ![w] = messageCount]
  /\ pc' = [pc EXCEPT ![w] = "inc"]
  /\ UNCHANGED <<variant, instanceID, messageCount, writeMux, msgPool, res, p,
                 msg, id, n, err, count, i, conn, minted, calls>>

\* Where the call goes with its id: "pool" has yet to compress (newMessage
\* runs before msg.Write), the others enter the chunk loop.
AfterID(w) ==
  IF variant = "pool" THEN "compress"
  ELSE IF count[w] = 0 THEN ExitPC ELSE "send"

\* messageID, the rest: gl.messageCount++ stored, PutUint32, Unlock, return;
\* in "pool" newMessage stores the id in the message.
Inc(w) ==
  /\ UNCHANGED <<cvars, wvars>>
  /\ pc[w] = "inc"
  /\ LET c == NextCount(seen[w])
         mid == MessageIDOf(instanceID, c)
     IN /\ messageCount' = c
        /\ id' = [id EXCEPT ![w] = mid]
        /\ minted' = Append(minted, mid)
        /\ res' = IF variant = "pool"
                    THEN [res EXCEPT ![msg[w]].id = mid]
                    ELSE res
  /\ countMux' = Unlock(countMux)
  /\ pc' = [pc EXCEPT ![w] = AfterID(w)]
  /\ UNCHANGED <<variant, instanceID, writeMux, msgPool, p, msg, seen, n, err,
                 count, i, conn, calls>>

\* ------------------------------------------------------------ compression
\* What a failing zip.Write and the zip.Close after it may have left in the
\* accumulator: nothing, or a part of the stream.
PartialWrites(q) == { 0, q.z \div 2 }

\* n, err := zip.Write(bytes.TrimFunc(p, unicode.IsSpace)); zip.Close()
\* on resource r.  fail: the compressor reports an error, having written
\* part bytes.  A Writer that was closed and not Reset accepts no Write.
\* The result: the accumulator, n, and whether err is a non-nil, non-EOF error.
ZipWrite(r, q, fail, part) ==
  IF r.zip = "closed"
    THEN [buf |-> r.buf, n |-> 0, failed |-> TRUE]
  ELSE IF fail
    THEN [buf |-> r.buf \o (IF part > 0 THEN <<Seg(q, 0, part)>> ELSE <<>>),
          n |-> 0, failed |-> TRUE]
  ELSE [buf |-> r.buf \o <<Seg(q, 0, q.z)>>, n |-> TrimFunc(q), failed |-> FALSE]

\* Where the call goes once the chunk count is accepted: "pool" has its id
\* already, the others call messageID() now.
AfterCount(c) ==
  IF variant = "pool" THEN (IF c = 0 THEN ExitPC ELSE "send")
  ELSE "messageID"

\* From zip.Write to the check of the chunk count ("alloc": from the
\* declaration of buf and zip).
Compress(w) ==
  /\ UNCHANGED <<cvars, wvars>>
  /\ pc[w] = "compress"
  /\ \E fail \in BOOLEAN, part \in PartialWrites(p[w]) :
       LET r == Using(w)
           old == IF variant = "alloc" THEN NewResource ELSE res[r]
           out == ZipWrite(old, p[w], fail, part)
           length == BufLen(out.buf)
           c == ChunkCount(length)
       IN /\ (~fail => part = 0)
          /\ res' = [res EXCEPT ![r] = [old EXCEPT !.buf = out.buf, !.zip = "closed"]]
          /\ IF out.failed
               THEN /\ n' = [n EXCEPT ![w] = 0]
                    /\ err' = [err EXCEPT ![w] = "ErrCompress"]
                    /\ count' = count
                    /\ pc' = [pc EXCEPT ![w] = ExitPC]
             ELSE IF ExceedsMaximum(c)
               THEN /\ n' = [n EXCEPT ![w] = 0]
                    /\ err' = [err EXCEPT ![w] = "ErrSize"]
                    /\ count' = [count EXCEPT ![w] = c]
                    /\ pc' = [pc EXCEPT ![w] = ExitPC]
             ELSE /\ n' = [n EXCEPT ![w] = out.n]
                  /\ err' = err
                  /\ count' = [count EXCEPT ![w] = c]
                  /\ pc' = [pc EXCEPT ![w] = AfterCount(c)]
  /\ UNCHANGED <<variant, instanceID, messageCount, countMux, writeMux, msgPool,
                 p, msg, id, seen, i, conn, minted, calls>>

\* ------------------------------------------------------------- chunk loop
\* The id the loop writes into the packet: msg.id in "pool", the local id
\* in the others.
PacketID(w) == IF variant = "pool" THEN res[Using(w)].id ELSE id[w]

\* A header with the two sequence bytes in the other order.
PacketSwapped(mid, idx, total, data) ==
  [magic |-> <<gelfMagicByteA, gelfMagicByteB>>, id |-> mid,
   seq |-> total % Uint8, total |-> idx % Uint8, data |-> data]

\* packet: magic bytes, id[0:8], uint8(i), uint8(count), chunk[:chunkSize]
Packet(mid, idx, total, data) ==
  [magic |-> <<gelfMagicByteA, gelfMagicByteB>>, id |-> mid,
   seq |-> idx % Uint8, total |-> total % Uint8, data |-> data]

\* The index the loop goes on with after the body for index k.
NextIndex(k) == k + 1

\* A loop that goes on after a failed WriteTo.
AfterWriteToGoOn(w, ok) ==
  IF NextIndex(i[w]) < count[w] THEN "send" ELSE ExitPC

\* Where the call goes after conn.WriteTo: out with the wrapped error
\*   if _, err := conn.WriteTo(packet, addr); err != nil { return 0, ... }
\* or into the next turn while i < count, or out with n.
AfterWriteTo(w, ok) ==
  IF ~ok THEN ExitPC
  ELSE IF NextIndex(i[w]) < count[w] THEN "send" ELSE ExitPC

\* One turn of `for i := 0; i < count; i++`: the header, buf.Read(chunk),
\* conn.WriteTo(packet, addr), which succeeds (ok) or not.
Send(w) ==
  /\ UNCHANGED <<cvars, wvars>>
  /\ pc[w] = "send"
  /\ LET r == Using(w)
         rd == BufRead(res[r].buf, maxChunkSize)
         pkt == Packet(PacketID(w), i[w], count[w], rd.data)
     IN /\ res' = [res EXCEPT ![r].buf = rd.rest]
        /\ \E ok \in BOOLEAN :
             /\ conn' = Append(conn, [pkt |-> pkt, ok |-> ok])
             /\ IF ~ok
                  THEN /\ n' = [n EXCEPT ![w] = 0]
                       /\ err' = [err EXCEPT ![w] = "ErrTransport"]
                       /\ i' = i
                       /\ pc' = [pc EXCEPT ![w] = AfterWriteTo(w, ok)]
                  ELSE /\ UNCHANGED <<n, err>>
                       /\ i' = [i EXCEPT ![w] = NextIndex(i[w])]
                       /\ pc' = [pc EXCEPT ![w] = AfterWriteTo(w, ok)]
  /\ UNCHANGED <<variant, instanceID, messageCount, countMux, writeMux, msgPool,
                 p, msg, id, seen, count, minted, calls>>

\* ---------------------------------------------------------------- release
\* sync.Pool.Put
PoolPut(pool, r) == pool \cup {r}

\* The deferred function of Write.
\*   "mux":  gl.buf.Reset(); gl.zip.Reset(&gl.buf); gl.writeMux.Unlock()
\*   "pool": freeMessage(msg)
Free(w) ==
  /\ UNCHANGED <<cvars, wvars>>
  /\ pc[w] = "free"
  /\ IF variant = "mux"
       THEN /\ res' = [res EXCEPT ![GlRes] = ResetResource(res[GlRes])]
            /\ writeMux' = Unlock(writeMux)
            /\ UNCHANGED <<msgPool, msg>>
       ELSE /\ res' = [res EXCEPT ![msg[w]] = FreeResource(res[msg[w]])]
            /\ msgPool' = PoolPut(msgPool, msg[w])
            /\ msg' = [msg EXCEPT ![w] = 0]
            /\ UNCHANGED writeMux
  /\ pc' = [pc EXCEPT ![w] = "ret"]
  /\ UNCHANGED <<variant, instanceID, messageCount, countMux, p, id, seen, n,
                 err, count, i, conn, minted, calls>>

\* ------------------------------------------------------------------- Spec
Next ==
  \E w \in Writers :
    \/ \E q \in Payloads : Write(w, q)
    \/ LockWrite(w)
    \/ Get(w)
    \/ LockCount(w)
    \/ Inc(w)
    \/ Compress(w)
    \/ Send(w)
    \/ Free(w)

Spec == Init /\ [][Next]_vars

\* --------------------------------------------------------------- SpecFair
\* The step writer w's call takes next, whichever it is.
Proceed(w) ==
  \/ LockWrite(w)
  \/ Get(w)
  \/ LockCount(w)
  \/ Inc(w)
  \/ Compress(w)
  \/ Send(w)
  \/ Free(w)

\* The scheduler runs every goroutine that can run: a call that can take
\* its next step (conn.WriteTo returning is one) takes it in the end.
Fairness == \A w \in Writers : WF_vars(Proceed(w))

SpecFair == Init /\ [][Next]_vars /\ Fairness

\* ---------------------------------------------------------------- SpecNew
\* Before New: a Config, and no client yet.
InitNew ==
  /\ NoWriter
  /\ config \in Configs
  /\ client = "none"
  /\ newErr = "nil"
  /\ variant \in Variants
  /\ instanceID = <<0, 0, 0, 0>>
  /\ messageCount = ZeroCount
  /\ NoCall

\* The call New(config).
NewClient ==
  /\ client = "none"
  /\ \E randOK \in BOOLEAN, tag \in InstanceIDs :
       LET r == New(config, randOK)
       IN /\ client' = r.client
          /\ newErr' = r.err
          /\ instanceID' = IF r.client = "gl" THEN tag ELSE instanceID
  /\ UNCHANGED <<variant, messageCount, countMux, writeMux, msgPool, res, pc,
                 p, msg, id, seen, n, err, count, i, conn, minted, calls,
                 config, wvars>>

NextNew == NewClient

SpecNew == InitNew /\ [][NextNew]_vars

\* ---------------------------------------------------------------- SpecSeq
\* One goroutine calling Write again and again, on a client just made or on
\* one that has sent 2^32 - 2 messages and is two short of the wrap of its
\* counter.
Caller == CHOOSE w \in Writers : \A v \in Writers : w <= v

NearWrap == U32(Uint16 - 1, Uint16 - 2)

InitSeq == \E c \in {ZeroCount, NearWrap} : InitAt(c)

NextSeq ==
  \/ \E q \in Payloads : Write(Caller, q)
  \/ LockWrite(Caller)
  \/ Get(Caller)
  \/ LockCount(Caller)
  \/ Inc(Caller)
  \/ Compress(Caller)
  \/ Send(Caller)
  \/ Free(Caller)

SpecSeq == InitSeq /\ [][NextSeq]_vars

\* ---------------------------------------------------------------- SpecMux
\* Goroutines calling Write at once on the client of the "mux" restatement
\* (one buffer and compressor under writeMux, no sync.Pool), just made or
\* two short of the wrap of its counter.
InitMux ==
  /\ \E c \in {ZeroCount, NearWrap} : InitAt(c)
  /\ variant = "mux"

NextMux ==
  \E w \in Writers :
    \/ \E q \in Payloads : Write(w, q)
    \/ LockWrite(w)
    \/ LockCount(w)
    \/ Inc(w)
    \/ Compress(w)
    \/ Send(w)
    \/ Free(w)

SpecMux == InitMux /\ [][NextMux]_vars

\* --------------------------------------------------------------- SpecPool
\* The state NewWriter(capacity, uw) returns in: capacity workers started,
\* each in front of `for arg := range ch`, no Client around.
InitPool ==
  /\ \E cap \in 0..MaxCapacity : writer = NewWriter(cap)
  /\ config = DefaultConfig
  /\ client = "none"
  /\ newErr = "nil"
  /\ variant = "alloc"
  /\ instanceID = <<0, 0, 0, 0>>
  /\ messageCount = ZeroCount
  /\ NoCall

\* A send on the closed writer.ch, or a close of it, has panicked: the
\* process is gone.
Crashed == closer = "panic" \/ \E c \in Callers : cpc[c] = "panic"

\* writer.Write(p), len(p) = l, up to its send on w.ch:
\*   resCh := make(chan writeResults); w.ch <- writeArgs{p: p, resCh: resCh}
\* The call is request number nreq + 1 and resCh the channel of that number.
WriterWrite(c, l) ==
  /\ ~Crashed
  /\ c = nreq + 1
  /\ cpc[c] = "idle"
  /\ nreq < MaxRequests
  /\ writer' = [writer EXCEPT
                  !.nreq = nreq + 1,
                  !.carg[c] = [p |-> [req |-> nreq + 1, len |-> l],
                               resCh |-> nreq + 1],
                  !.cres[c] = ZeroResults,
                  !.cpc[c] = "send"]
  /\ UNCHANGED gvars

\* The send of caller c on w.ch meets the receive of worker k in
\* `for arg := range ch` (the channel has no buffer): the worker has arg, the
\* caller goes on to `<-resCh`.
Receive(k, c) ==
  /\ ~Crashed
  /\ kpc[k] = "recv"
  /\ cpc[c] = "send"
  /\ ~chClosed
  /\ writer' = [writer EXCEPT
                  !.karg[k] = carg[c],
                  !.kpc[k] = "write",
                  !.cpc[c] = "wait",
                  !.taken[carg[c].p.req] = @ \cup {k}]
  /\ UNCHANGED gvars

\* The record of the calls on uw, the calls `wrote` made with the bytes of
\* request r added.
Logged(log, r, wrote) == [log EXCEPT ![r] = @ \o wrote]

\* uw.Write(p), which succeeds (ok) or not: muxWriter.Write, under its mutex.
UwWrite(q, ok) ==
  IF ok THEN [n |-> q.len, err |-> "nil"] ELSE [n |-> 0, err |-> "ErrWrite"]

\* bufio.Writer.Write(p) on the empty buffer b: a p longer than the buffer
\* goes straight to uw and the result is that of uw.Write; any other p is
\* copied into the buffer, uw is not called, and the result is (len(p), nil).
\* wrote: the calls made on uw.
BufWrite(b, q, ok) ==
  IF q.len > defaultBufSize - b.len /\ b.len = 0
    THEN LET r == UwWrite(q, ok)
         IN [buf |-> [b EXCEPT !.err = r.err], res |-> r,
             wrote |-> <<[p |-> q, res |-> r]>>]
  ELSE [buf |-> [held |-> q.req, len |-> b.len + q.len, err |-> b.err],
        res |-> [n |-> q.len, err |-> "nil"], wrote |-> <<>>]

\* bufio.Writer.Flush() on b, holding the bytes of payload q: nothing to do
\* after an error or on an empty buffer, else one uw.Write of what is held.
BufFlush(b, q, ok) ==
  IF b.err # "nil" \/ b.len = 0 THEN [buf |-> b, wrote |-> <<>>]
  ELSE LET r == UwWrite(q, ok)
       IN [buf |-> [held |-> IF ok THEN 0 ELSE b.held,
                    len |-> IF ok THEN 0 ELSE b.len, err |-> r.err],
           wrote |-> <<[p |-> q, res |-> r]>>]

\* res.n, res.err = buf.Write(arg.p)
WorkerWrite(k) ==
  /\ ~Crashed
  /\ kpc[k] = "write"
  /\ \E ok \in BOOLEAN :
       LET out == BufWrite(kbuf[k], karg[k].p, ok)
       IN /\ (out.wrote = <<>> => ok)
          /\ writer' = [writer EXCEPT
                          !.kbuf[k] = out.buf,
                          !.kres[k] = out.res,
                          !.uw = Logged(uw, karg[k].p.req, out.wrote),
                          !.kpc[k] = "flush"]
  /\ UNCHANGED gvars

\* buf.Flush(), its error dropped.
WorkerFlush(k) ==
  /\ ~Crashed
  /\ kpc[k] = "flush"
  /\ \E ok \in BOOLEAN :
       LET out == BufFlush(kbuf[k], karg[k].p, ok)
       IN /\ (out.wrote = <<>> => ok)
          /\ writer' = [writer EXCEPT
                          !.kbuf[k] = out.buf,
                          !.uw = Logged(uw, karg[k].p.req, out.wrote),
                          !.kpc[k] = "reply"]
  /\ UNCHANGED gvars

\* arg.resCh <- res meets `res := <-resCh; return res.n, res.err` of the
\* caller that made the channel.
Reply(k, c) ==
  /\ ~Crashed
  /\ kpc[k] = "reply"
  /\ cpc[c] = "wait"
  /\ carg[c].resCh = karg[k].resCh
  /\ writer' = [writer EXCEPT
                  !.cres[c] = kres[k],
                  !.cpc[c] = "ret",
                  !.given[karg[k].resCh] = Append(@, kres[k]),
                  !.kpc[k] = "reset"]
  /\ UNCHANGED gvars

\* buf.Reset(uw); res.n, res.err = 0, nil; and back to the head of the loop,
\* where arg is out of scope.
WorkerReset(k) ==
  /\ ~Crashed
  /\ kpc[k] = "reset"
  /\ writer' = [writer EXCEPT
                  !.kbuf[k] = EmptyBuf,
                  !.kres[k] = ZeroResults,
                  !.karg[k] = ZeroArgs,
                  !.kpc[k] = "recv"]
  /\ UNCHANGED gvars

\* `for arg := range ch` ends once ch is closed (nothing is ever buffered
\* in it).
RangeEnds(closed) == closed

\* The loop is over and the deferred w.wg.Done() runs.
WorkerExit(k) ==
  /\ ~Crashed
  /\ kpc[k] = "recv"
  /\ RangeEnds(chClosed)
  /\ writer' = [writer EXCEPT !.kpc[k] = "exit", !.wg = wg - 1]
  /\ UNCHANGED gvars

\* A call of writer.Close(): close(w.ch), which panics when w.ch is closed
\* already (an earlier call of Close closed it), then on to w.wg.Wait().
WriterClose ==
  /\ ~Crashed
  /\ writer' = IF chClosed
                 THEN [writer EXCEPT !.closer = "panic"]
                 ELSE [writer EXCEPT !.chClosed = TRUE, !.closer = "wait"]
  /\ UNCHANGED gvars

\* w.wg.Wait() returns, and Close with it.
CloseReturn ==
  /\ ~Crashed
  /\ closer = "wait"
  /\ wg = 0
  /\ writer' = [writer EXCEPT !.closer = "closed"]
  /\ UNCHANGED gvars

\* The send of caller c on w.ch meets the closed channel, whether close(w.ch)
\* found it blocked there or the call began after it: the send panics.
SendPanic(c) ==
  /\ ~Crashed
  /\ cpc[c] = "send"
  /\ chClosed
  /\ writer' = [writer EXCEPT !.cpc[c] = "panic"]
  /\ UNCHANGED gvars

\* The step worker k takes next, whichever it is.
WorkerStep(k) ==
  \/ \E c \in Callers : Receive(k, c)
  \/ WorkerWrite(k)
  \/ WorkerFlush(k)
  \/ \E c \in Callers : Reply(k, c)
  \/ WorkerReset(k)
  \/ WorkerExit(k)

NextPool ==
  \/ \E c \in Callers, l \in Lens : WriterWrite(c, l)
  \/ WriterClose
  \/ \E k \in Workers : WorkerStep(k)
  \/ CloseReturn
  \/ \E c \in Callers : SendPanic(c)

SpecPool == InitPool /\ [][NextPool]_vars

\* The scheduler runs every goroutine that can run, and uw.Write returns:
\* a worker, the goroutine in Close, a goroutine whose send panics.
FairnessPool ==
  /\ \A k \in Workers : WF_vars(WorkerStep(k))
  /\ WF_vars(CloseReturn)
  /\ \A c \in Callers : WF_vars(SendPanic(c))

SpecPoolFair == InitPool /\ [][NextPool]_vars /\ FairnessPool

\* ============================================================ properties
Range(s) == { s[k] : k \in DOMAIN s }

Distinct(s) == \A a, b \in DOMAIN s : a # b => s[a] # s[b]

\* The WriteTo calls made with message id m, in the order they were made.
CallsOf(m) ==
  LET Has(e) == e.pkt.id = m
  IN SelectSeq(conn, Has)

\* The states of a call from its first to its last touch of an encoding
\* resource.
Working == {"compress", "messageID", "inc", "send", "free"}

\* The payload has no byte.
IsEmpty(q) == q.lead = 0 /\ q.body = 0 /\ q.trail = 0

\* The last byte of the payload is "\n".
EndsInNewline(q) == q.trail > 0 /\ q.nl

\* The payload is one Write goes on with: not empty, ending in a newline.
Valid(q) == ~IsEmpty(q) /\ EndsInNewline(q)

\* This step is a turn of writer w's chunk loop.
SendStep(w) ==
  /\ pc[w] = "send"
  /\ Len(conn') = Len(conn) + 1
  /\ (pc'[w] # "send" \/ i'[w] # i[w])

\* ---------------------------------------------------------------- C1
IdsDistinct ==
  /\ Distinct(minted)
  /\ \A w \in Writers : id[w] # ZeroID => id[w] \in Range(minted)
  /\ \A w1, w2 \in Writers :
       (w1 # w2 /\ id[w1] # ZeroID /\ id[w2] # ZeroID) => id[w1] # id[w2]

\* C1: whatever the interleaving of the writers, no two Write calls obtain
\* the same message id from messageID(), and every packet a call hands to
\* conn.WriteTo carries the one id that call obtained.
C1_UniqueMessageID ==
  /\ []IdsDistinct
  /\ [][\A w \in Writers :
          SendStep(w) => /\ id[w] # ZeroID
                         /\ conn'[Len(conn')].pkt.id = id[w]]_vars

\* Two calls in flight at once, each past its first chunk.
C1_Witness ==
  \E w1, w2 \in Writers :
    /\ w1 # w2
    /\ pc[w1] = "send" /\ i[w1] > 0
    /\ pc[w2] = "send" /\ i[w2] > 0
    /\ Len(CallsOf(id[w1])) > 0 /\ Len(CallsOf(id[w2])) > 0

\* ---------------------------------------------------------------- C2
\* C2: an encoding resource is in the hands of at most one call at a time:
\* in "mux" a call is between its first compressor write and its reset only
\* while it holds writeMux; in "pool" a message a call got from the pool is
\* neither in the pool nor in another call's hands until freeMessage.
C2_ExclusiveResource ==
  /\ \A w1, w2 \in Writers :
       (w1 # w2 /\ pc[w1] \in Working /\ pc[w2] \in Working)
         => Using(w1) # Using(w2)
  /\ variant = "mux" => \A w \in Writers : pc[w] \in Working => writeMux = w
  /\ variant = "pool" =>
       \A w \in Writers :
         /\ pc[w] \in Working => (msg[w] \in Writers /\ msg[w] \notin msgPool)
         /\ pc[w] \notin Working => msg[w] = 0

\* Two calls at once on the "pool" client, each with a message of its own:
\* one is sending its chunks while the other compresses.
C2_Witness ==
  /\ variant = "pool"
  /\ \E w1, w2 \in Writers :
       /\ w1 # w2
       /\ pc[w1] = "send" /\ pc[w2] = "compress"
       /\ msg[w1] # msg[w2]
       /\ Len(conn) > 0

\* ---------------------------------------------------------------- C3
\* The calls made with one id carry the indices 0, 1, 2, .. in that order,
\* and all the same total.
InOrder(s) ==
  \A k \in DOMAIN s : s[k].pkt.seq = k - 1 /\ s[k].pkt.total = s[1].pkt.total

\* Writer w's call came out of the chunk loop with no transport error.
Completed(w) ==
  /\ pc[w] \in {"free", "ret"}
  /\ Valid(p[w])
  /\ err[w] = "nil"

\* C3: the datagrams of a Write that computed the chunk count `count` and met
\* no transport error carry the indices 0 .. count-1, in that order, each
\* once, and each of them the total `count`.
C3_ChunksInOrder ==
  /\ \A m \in Range(minted) : InOrder(CallsOf(m))
  /\ \A w \in Writers :
       Completed(w) =>
         LET s == CallsOf(id[w])
         IN /\ Len(s) = count[w]
            /\ \A k \in DOMAIN s : s[k].ok /\ s[k].pkt.total = count[w]

\* A message of two chunks has been sent whole.
C3_Witness ==
  \E w \in Writers :
    /\ Completed(w)
    /\ count[w] = 2
    /\ Len(CallsOf(id[w])) = 2

\* ---------------------------------------------------------------- C4
\* The accumulator is empty and the compressor attached to it.
Clean(r) == r.buf = <<>> /\ r.zip = "open"

\* The bytes of chunk k of the compressed form of payload q.
Slice(q, k) ==
  IF k * maxChunkSize >= q.z THEN <<>>
  ELSE <<Seg(q, k * maxChunkSize, Min((k + 1) * maxChunkSize, q.z))>>

\* C4: whichever way a Write that took an encoding resource ends, the
\* resource is available again (in the pool, or writeMux unlocked) only with
\* its accumulator empty and its compressor reset, and a call finds it so;
\* hence every chunk of a message holds bytes of that message's own
\* compressed payload and no byte left by an earlier message.
C4_ResetBeforeReuse ==
  /\ \A r \in msgPool : Clean(res[r])
  /\ (variant = "mux" /\ writeMux = 0) => Clean(res[GlRes])
  /\ \A w \in Writers :
       (pc[w] = "compress" /\ variant # "alloc") => Clean(res[Using(w)])
  /\ \A k \in DOMAIN conn :
       \E q \in Payloads : conn[k].pkt.data = Slice(q, conn[k].pkt.seq)
  /\ \A w \in Writers :
       id[w] # ZeroID =>
         LET s == CallsOf(id[w])
         IN \A k \in DOMAIN s : s[k].pkt.data = Slice(p[w], s[k].pkt.seq)

\* On the one resource of "mux", a message of two chunks failed on its first
\* chunk, leaving all its bytes in the accumulator, and a later message went
\* out whole.
C4_Witness ==
  /\ variant = "mux"
  /\ Len(conn) >= 2
  /\ ~conn[1].ok /\ conn[1].pkt.total = 2
  /\ \E w \in Writers :
       /\ Completed(w)
       /\ id[w] # conn[1].pkt.id
       /\ Len(CallsOf(id[w])) = count[w]

\* ---------------------------------------------------------------- C5
\* The compressed payload needs more than maxChunkCount chunks.
Oversize(q) == q.z > maxChunkCount * maxChunkSize

\* The check lets 128 full chunks pass and refuses one byte more.
SizeBoundary ==
  /\ ~ExceedsMaximum(ChunkCount(maxChunkCount * maxChunkSize))
  /\ ExceedsMaximum(ChunkCount(maxChunkCount * maxChunkSize + 1))

\* C5: a Write whose compressed payload needs more than 128 chunks returns
\* (0, size exceeded) and hands no datagram to the transport; it leaves no
\* lock held and no message in hand, so the client serves the next Write.
C5_OversizeRejected ==
  /\ SizeBoundary
  /\ \A w \in Writers :
       /\ err[w] = "ErrSize" => (Oversize(p[w]) /\ n[w] = 0)
       /\ (Valid(p[w]) /\ Oversize(p[w])) =>
            /\ pc[w] # "send"
            /\ i[w] = 0
            /\ err[w] \in {"nil", "ErrCompress", "ErrSize"}
            /\ id[w] # ZeroID => CallsOf(id[w]) = <<>>
            /\ (pc[w] \in {"free", "ret"} /\ err[w] # "ErrCompress")
                 => (err[w] = "ErrSize" /\ n[w] = 0)
            /\ pc[w] = "ret" => (countMux # w /\ writeMux # w /\ msg[w] = 0)

\* One call was refused for its size, and another call of the same client
\* went out whole.
C5_Witness ==
  \E w1, w2 \in Writers :
    /\ pc[w1] = "ret" /\ err[w1] = "ErrSize"
    /\ pc[w2] = "ret" /\ Completed(w2) /\ n[w2] > 0
    /\ Len(CallsOf(id[w2])) = count[w2]

\* ---------------------------------------------------------------- C6
\* This step is a call of Write, and no writer but w can have made it.
CallStep(w) ==
  /\ calls' = calls + 1
  /\ pc[w] \in {"idle", "ret"}
  /\ pc'[w] # "idle"
  /\ \A v \in Writers \ {w} : pc'[v] = pc[v] /\ p'[v] = p[v]

\* What no call may touch before it has passed the checks at its top.
ClientUnchanged ==
  UNCHANGED <<messageCount, countMux, writeMux, msgPool, res, msg, conn, minted>>

\* C6: Write of a non-empty payload that does not end in a newline returns
\* (0, ErrMissingNewline) at once: no datagram, the counter not advanced, no
\* encoding resource taken or changed.
C6_MissingNewline ==
  /\ [](\A w \in Writers :
          (~IsEmpty(p[w]) /\ ~EndsInNewline(p[w])) =>
            /\ pc[w] = "ret" /\ n[w] = 0 /\ err[w] = "ErrMissingNewline"
            /\ id[w] = ZeroID /\ msg[w] = 0 /\ countMux # w /\ writeMux # w)
  /\ [][\A w \in Writers :
          (CallStep(w) /\ ~IsEmpty(p'[w]) /\ ~EndsInNewline(p'[w])) =>
            /\ pc'[w] = "ret" /\ n'[w] = 0 /\ err'[w] = "ErrMissingNewline"
            /\ ClientUnchanged]_vars

\* A call returned ErrMissingNewline while another call was in its chunk loop.
C6_Witness ==
  \E w1, w2 \in Writers :
    /\ pc[w1] = "ret" /\ err[w1] = "ErrMissingNewline"
    /\ ~IsEmpty(p[w1]) /\ ~EndsInNewline(p[w1])
    /\ pc[w2] = "send"

\* ---------------------------------------------------------------- C7
\* C7: Write of an empty payload returns (0, nil) at once: no datagram, the
\* counter and every encoding resource as they were.
C7_EmptyPayload ==
  /\ [](\A w \in Writers :
          (IsEmpty(p[w]) /\ pc[w] # "idle") =>
            /\ pc[w] = "ret" /\ n[w] = 0 /\ err[w] = "nil"
            /\ id[w] = ZeroID /\ msg[w] = 0 /\ countMux # w /\ writeMux # w)
  /\ [][\A w \in Writers :
          (CallStep(w) /\ IsEmpty(p'[w])) =>
            /\ pc'[w] = "ret" /\ n'[w] = 0 /\ err'[w] = "nil"
            /\ ClientUnchanged]_vars

\* A call with an empty payload returned while another call was in its
\* chunk loop, a chunk already sent.
C7_Witness ==
  \E w1, w2 \in Writers :
    /\ pc[w1] = "ret" /\ IsEmpty(p[w1]) /\ err[w1] = "nil"
    /\ pc[w2] = "send" /\ i[w2] = 1

\* ---------------------------------------------------------------- C8
\* A failed WriteTo is the last call made with its id, the calls before it
\* carry 0, 1, .. and succeeded.
FailureEnds(s) ==
  /\ InOrder(s)
  /\ \A k \in DOMAIN s : ~s[k].ok => k = Len(s)

\* C8: when the transport fails on chunk i of a message, Write returns
\* (0, transport error); no chunk of the message with a greater index is
\* sent and chunk i is not sent again; the chunks 0 .. i-1 stay sent, once
\* each.
C8_TransportFailure ==
  /\ [](/\ \A m \in Range(minted) : FailureEnds(CallsOf(m))
        /\ \A w \in Writers :
             LET s == CallsOf(id[w])
             IN /\ err[w] = "ErrTransport" =>
                     /\ pc[w] \in {"free", "ret"}
                     /\ n[w] = 0
                     /\ Len(s) = i[w] + 1
                     /\ ~s[Len(s)].ok /\ s[Len(s)].pkt.seq = i[w]
                /\ (id[w] # ZeroID /\ \E k \in DOMAIN s : ~s[k].ok)
                     => err[w] = "ErrTransport")
  /\ [][Len(conn') >= Len(conn) /\ SubSeq(conn', 1, Len(conn)) = conn]_vars

\* A call has returned the transport error it met on its second chunk.
C8_Witness ==
  \E w \in Writers :
    /\ pc[w] = "ret" /\ err[w] = "ErrTransport"
    /\ i[w] = 1 /\ count[w] = 2
    /\ Len(CallsOf(id[w])) = 2

\* ---------------------------------------------------------------- C9
\* ceil(L / maxChunkSize): the least k with k * maxChunkSize >= L.
Ceil(L) ==
  CHOOSE k \in 0..((L \div maxChunkSize) + 1) :
    /\ k * maxChunkSize >= L
    /\ \A j \in 0..(k - 1) : j * maxChunkSize < L

\* k full chunks make k chunks, one byte more makes k + 1.
ChunkCountExact ==
  \A k \in 1..maxChunkCount :
    /\ ChunkCount(k * maxChunkSize) = k
    /\ ChunkCount(k * maxChunkSize + 1) = k + 1

\* Writer w's call has computed its chunk count.
Counted(w) ==
  /\ Valid(p[w])
  /\ err[w] # "ErrCompress"
  /\ pc[w] \in (IF variant = "pool" THEN {"send", "free", "ret"}
                ELSE {"messageID", "inc", "send", "free", "ret"})

\* The WriteTo calls of s that succeeded.
Delivered(s) == { k \in DOMAIN s : s[k].ok }

\* C9: the chunk count Write computes for a compressed length L is
\* ceil(L / 1420), k for L = k * 1420 and k + 1 for L = k * 1420 + 1, and a
\* Write that meets no transport error sends that many datagrams.
C9_ChunkCount ==
  /\ ChunkCountExact
  /\ \A w \in Writers :
       /\ Counted(w) => count[w] = Ceil(p[w].z)
       /\ Completed(w) =>
            Cardinality(Delivered(CallsOf(id[w]))) = Ceil(p[w].z)

\* One call sent a payload of exactly one full chunk in one datagram,
\* another a payload one byte longer in two.
C9_Witness ==
  \E w1, w2 \in Writers :
    /\ Completed(w1) /\ p[w1].z = maxChunkSize
    /\ Cardinality(Delivered(CallsOf(id[w1]))) = 1
    /\ Completed(w2) /\ p[w2].z = maxChunkSize + 1
    /\ Cardinality(Delivered(CallsOf(id[w2]))) = 2

\* ---------------------------------------------------------------- C10
\* The four bytes after those of a little-endian uint32, carry by carry;
\* after 255 255 255 255 come 0 0 0 0.
SuccLE(a) ==
  IF a[1] < 255 THEN <<a[1] + 1, a[2], a[3], a[4]>>
  ELSE IF a[2] < 255 THEN <<0, a[2] + 1, a[3], a[4]>>
  ELSE IF a[3] < 255 THEN <<0, 0, a[3] + 1, a[4]>>
  ELSE IF a[4] < 255 THEN <<0, 0, 0, a[4] + 1>>
  ELSE <<0, 0, 0, 0>>

\* C10: the ids of successive messageID calls are distinct 8-byte values,
\* their first four bytes the instance id, their last four the little-endian
\* counter, one more (modulo 2^32) at each call: after 2^32 - 1 comes 0, and
\* the call returns as any other.
C10_SequentialIDs ==
  /\ Distinct(minted)
  /\ \A k \in DOMAIN minted :
       /\ Len(minted[k]) = 8
       /\ \A j \in 1..8 : minted[k][j] \in 0..255
       /\ SubSeq(minted[k], 1, 4) = instanceID
  /\ \A k \in 1..(Len(minted) - 1) :
       SubSeq(minted[k + 1], 5, 8) = SuccLE(SubSeq(minted[k], 5, 8))
  /\ minted # <<>> =>
       LET last == minted[Len(minted)]
       IN /\ messageCount.lo = last[5] + 256 * last[6]
          /\ messageCount.hi = last[7] + 256 * last[8]

\* The counter has wrapped: the id with counter 2^32 - 1, then the one with 0.
C10_Witness ==
  \E k \in 1..(Len(minted) - 1) :
    /\ SubSeq(minted[k], 5, 8) = <<255, 255, 255, 255>>
    /\ SubSeq(minted[k + 1], 5, 8) = <<0, 0, 0, 0>>
    /\ \E w \in Writers : pc[w] = "ret" /\ err[w] = "nil" /\ id[w] = minted[k + 1]

\* ---------------------------------------------------------------- C11
\* The payload slices of the calls s, one after the other.
RECURSIVE Joined(_)
Joined(s) == IF s = <<>> THEN <<>> ELSE Head(s).pkt.data \o Joined(Tail(s))

\* The bytes b with every two neighbouring runs of one source that continue
\* each other made one run.
RECURSIVE Coalesce(_)
Coalesce(b) ==
  IF Len(b) < 2 THEN b
  ELSE LET a == b[1]
           c == b[2]
       IN IF a.src = c.src /\ a.hi = c.lo
          THEN Coalesce(<<[src |-> a.src, lo |-> a.lo, hi |-> c.hi]>>
                          \o SubSeq(b, 3, Len(b)))
          ELSE <<a>> \o Coalesce(Tail(b))

\* The whole compressed form of the trimmed payload q, first byte to last.
Stream(q) == <<[src |-> q, lo |-> 0, hi |-> q.z]>>

\* C11: for a Write that returns without error, the payload slices of the
\* chunks carrying its message id, put together in the order of their
\* sequence indices, are the compressed form of the trimmed input from its
\* first byte to its last: no byte missing, none twice, none out of place.
C11_Reassembly ==
  \A w \in Writers :
    Completed(w) =>
      LET s == CallsOf(id[w])
      IN /\ \A k \in DOMAIN s : s[k].pkt.seq = k - 1
         /\ Coalesce(Joined(s)) = Stream(p[w])

\* A call has returned after its message went out in two chunks, 1420 bytes
\* and one byte, which join into the 1421 bytes of the compressed payload.
C11_Witness ==
  \E w \in Writers :
    /\ pc[w] = "ret" /\ Completed(w)
    /\ count[w] = 2
    /\ Len(Joined(CallsOf(id[w]))) = 2
    /\ Coalesce(Joined(CallsOf(id[w]))) = Stream(p[w])

\* ---------------------------------------------------------------- C12
\* One of the WriteTo calls made with the id m failed.
SendFailed(m) == \E k \in DOMAIN conn : conn[k].pkt.id = m /\ ~conn[k].ok

\* The statement of C12 as it stands (a compressor that reports no error
\* granted): a Write of a valid payload whose compressed form is within the
\* chunk-count limit returns the count of bytes the compressor took and nil.
C12_AsStated ==
  \A w \in Writers :
    (pc[w] = "ret" /\ Valid(p[w]) /\ ~Oversize(p[w]) /\ err[w] # "ErrCompress")
      => (err[w] = "nil" /\ n[w] = p[w].body)

\* C12: a Write of a valid, newline-terminated payload whose compressed form
\* is within the chunk-count limit returns (n, nil), n the count of bytes of
\* the trimmed payload the compressor took, provided neither the compressor
\* nor any conn.WriteTo of the message reports an error; when a WriteTo of
\* the message failed it returns 0 and the transport error instead.
C12_ReturnsCount ==
  \A w \in Writers :
    (pc[w] = "ret" /\ Valid(p[w]) /\ ~Oversize(p[w]) /\ err[w] # "ErrCompress")
      => IF SendFailed(id[w])
           THEN err[w] = "ErrTransport" /\ n[w] = 0
           ELSE err[w] = "nil" /\ n[w] = p[w].body

\* A call returned nil and 1398 for a payload of 1401 bytes, three of them
\* white space around the text, after both its chunks went out.
C12_Witness ==
  \E w \in Writers :
    /\ pc[w] = "ret" /\ err[w] = "nil"
    /\ p[w].lead + p[w].body + p[w].trail = 1401
    /\ n[w] = 1398
    /\ ~SendFailed(id[w])
    /\ Len(CallsOf(id[w])) = 2

\* ---------------------------------------------------------------- C13
\* C13: New returns an error and no client whenever the Config has no
\* destination address or no transport, and returns a client only when the
\* Config has both.
C13_AddressAndTransport ==
  client # "none" =>
    /\ (config.ServerAddr = "nil" \/ config.ClientPacketConn = "nil")
         => (client = "nil" /\ newErr # "nil")
    /\ client = "gl"
         => (config.ServerAddr # "nil" /\ config.ClientPacketConn # "nil")

\* ---------------------------------------------------------------- C14
\* C14: messageID() is called (the counter incremented) only once the
\* payload is compressed and its chunk count accepted, and before the first
\* chunk goes out; so a call that holds an id has an accepted count, and a
\* Write that ends with a compression or size error has taken no id and left
\* messageCount as it was.
C14_MintAfterAccept ==
  /\ \A w \in Writers :
       id[w] # ZeroID =>
         /\ Valid(p[w])
         /\ pc[w] \in {"send", "free", "ret"}
         /\ err[w] \notin {"ErrCompress", "ErrSize"}
         /\ count[w] \in 1..maxChunkCount
  /\ \A k \in DOMAIN conn : conn[k].pkt.id \in Range(minted)

\* ---------------------------------------------------------------- C15
\* The count of bytes of a payload slice.
RECURSIVE Size(_)
Size(b) == IF b = <<>> THEN 0 ELSE (b[1].hi - b[1].lo) + Size(Tail(b))

\* The datagram d is a well-formed chunk.
WellFormed(d) ==
  /\ d.magic = <<30, 15>>
  /\ Len(d.id) = 8 /\ \A j \in 1..8 : d.id[j] \in 0..255
  /\ 0 <= d.seq /\ d.seq < d.total /\ d.total <= 128
  /\ LET sz == Size(d.data)
     IN /\ sz >= 1 /\ sz <= 1420
        /\ 2 + Len(d.id) + 2 + sz <= 1432
        /\ d.seq < d.total - 1 => sz = 1420
  /\ 1432 < mtuSize

\* C15: every datagram handed to conn.WriteTo starts with 0x1E 0x0F, then
\* has an 8-byte message id, an index and a total with
\* 0 <= index < total <= 128 (each the loop's own value, not a truncation
\* of it), then 1 to 1420 payload bytes, 1432 bytes at most and so under the
\* MTU of 1500; every chunk but the last of a message has exactly 1420
\* payload bytes.
C15_WellFormedDatagram ==
  /\ \A k \in DOMAIN conn : WellFormed(conn[k].pkt)
  /\ \A w \in Writers :
       pc[w] = "send" =>
         (0 <= i[w] /\ i[w] < count[w] /\ count[w] <= 128 /\ 128 < Uint8)
  /\ \A w \in Writers :
       (id[w] # ZeroID /\ pc[w] \in {"send", "free", "ret"}) =>
         LET s == CallsOf(id[w])
         IN \A k \in DOMAIN s :
              s[k].pkt.seq = k - 1 /\ s[k].pkt.total = count[w]

\* A full chunk of 1420 bytes, index 0 of 2, and after it the last chunk of
\* the same message, one byte, index 1 of 2, have been handed to WriteTo.
C15_Witness ==
  \E a, b \in DOMAIN conn :
    /\ a < b
    /\ conn[a].pkt.id = conn[b].pkt.id
    /\ conn[a].pkt.seq = 0 /\ conn[a].pkt.total = 2
    /\ Size(conn[a].pkt.data) = 1420
    /\ conn[b].pkt.seq = 1 /\ conn[b].pkt.total = 2
    /\ Size(conn[b].pkt.data) = 1
    /\ WellFormed(conn[a].pkt) /\ WellFormed(conn[b].pkt)

\* ---------------------------------------------------------------- C16
\* C16: countMux is held only from the Lock to the Unlock inside
\* messageID(), around the increment and the encoding of the id: whoever
\* holds it is at that point of its call, and no call holds it while it
\* compresses or is in conn.WriteTo, so a call held up in the transport
\* keeps no other call from its id.
C16_CounterLockScope ==
  /\ countMux # 0 => (countMux \in Writers /\ pc[countMux] = "inc")
  /\ \A w \in Writers :
       pc[w] \in {"lock", "get", "compress", "send", "free", "ret", "idle"}
         => countMux # w
  /\ \A w, v \in Writers :
       (pc[w] = "send" /\ pc[v] = "messageID"
          /\ \A u \in Writers : pc[u] # "inc") => countMux = 0

\* One call is in its chunk loop, a chunk already handed to the transport,
\* while another call holds countMux inside messageID().
C16_Witness ==
  \E w, v \in Writers :
    /\ w # v
    /\ pc[w] = "send" /\ Len(CallsOf(id[w])) > 0
    /\ pc[v] = "inc" /\ countMux = v

\* ---------------------------------------------------------------- C17
\* Writer w is inside a Write call.
InCall(w) == pc[w] \notin {"idle", "ret"}

\* The counter lock is taken after the write lock or the pool checkout, never
\* before; a call that returned holds no lock and no message.
LockOrder ==
  \A w \in Writers :
    /\ pc[w] \in {"lock", "get"} => countMux # w
    /\ (countMux = w /\ variant = "mux") => writeMux = w
    /\ (countMux = w /\ variant = "pool") => msg[w] # 0
    /\ ~InCall(w) => (countMux # w /\ writeMux # w /\ msg[w] = 0)

\* While a call is under way, some call can take a step.
NoDeadlock == (\E w \in Writers : InCall(w)) => (\E w \in Writers : ENABLED Proceed(w))

\* C17: concurrent Write calls cannot deadlock: the counter lock is only
\* taken after the write lock or the pool checkout, every lock and pooled
\* message is given back on every way out of Write, and so, when every
\* conn.WriteTo returns and the scheduler is fair, every Write call that
\* began returns.
C17_EveryWriteReturns ==
  /\ []LockOrder
  /\ []NoDeadlock
  /\ \A w \in Writers : InCall(w) ~> (pc[w] = "ret")

\* A call waits for writeMux while its holder is inside messageID() with
\* countMux as well.
C17_Witness ==
  \E w, v \in Writers :
    /\ w # v
    /\ pc[v] = "lock"
    /\ writeMux = w /\ countMux = w /\ pc[w] = "inc"

\* ---------------------------------------------------------------- C18
\* The counter in the last four bytes of the id a, little-endian, as its
\* two 16-bit halves.
CounterHi(a) == a[7] + 256 * a[8]

CounterLo(a) == a[5] + 256 * a[6]

\* The counter of id a is below that of id b.
CounterLess(a, b) ==
  \/ CounterHi(a) < CounterHi(b)
  \/ (CounterHi(a) = CounterHi(b) /\ CounterLo(a) < CounterLo(b))

\* The counter of id a is 2^32 - 1: the next one minted is 0.
CounterMax(a) == CounterHi(a) = 65535 /\ CounterLo(a) = 65535

\* From each datagram on the wire to the next, either the message goes on
\* with its next index or a message with a higher counter begins.
Increasing ==
  \A k \in 1..(Len(conn) - 1) :
    LET a == conn[k].pkt
        b == conn[k + 1].pkt
    IN \/ (b.id = a.id /\ b.seq = a.seq + 1)
       \/ (b.id # a.id /\ b.seq = 0 /\ CounterLess(a.id, b.id))

\* C18, as it stands: in the "mux" variant the datagrams of different Write
\* calls never interleave on the wire, the chunks of a message lie together
\* and the messages follow each other in strictly increasing counter order.
C18_AsStated == variant = "mux" => Increasing

\* Id a was minted before id b, and the counter of b is above that of a
\* unless the counter passed from 2^32 - 1 to 0 in between.
MintedBefore(a, b) ==
  \E j, k \in DOMAIN minted :
    /\ j < k
    /\ minted[j] = a
    /\ minted[k] = b
    /\ CounterLess(a, b) <=> ~(\E m \in j..(k - 1) : CounterMax(minted[m]))

\* From each datagram on the wire to the next, either the message goes on
\* with its next index or a message minted later begins.
Contiguous ==
  \A k \in 1..(Len(conn) - 1) :
    LET a == conn[k].pkt
        b == conn[k + 1].pkt
    IN \/ (b.id = a.id /\ b.seq = a.seq + 1)
       \/ (b.id # a.id /\ b.seq = 0 /\ MintedBefore(a.id, b.id))

\* C18: in the "mux" variant the datagrams of different Write calls never
\* interleave on the wire: from one datagram to the next either the message
\* goes on with its next index, or a message minted later begins; so the
\* chunks of a message lie together and the messages follow each other in
\* the order in which their calls took writeMux, which is strictly
\* increasing counter order except across the wrap of the counter from
\* 2^32 - 1 to 0, where the counter falls: a call takes its id and sends its
\* chunks while it holds writeMux and every other call is outside or
\* waiting for it.
C18_NoInterleaving ==
  variant = "mux" =>
    /\ Contiguous
    /\ \A w \in Writers :
         pc[w] \in {"messageID", "inc", "send"} =>
           /\ writeMux = w
           /\ \A v \in Writers \ {w} : pc[v] \in {"idle", "lock", "ret"}

\* On the wire of the "mux" client: the two chunks of the message with
\* counter 2^32 - 1, then the first chunk of the message with counter 0,
\* while another call waits for writeMux or has returned.
C18_Witness ==
  /\ variant = "mux"
  /\ Len(conn) >= 3
  /\ conn[1].pkt.id = conn[2].pkt.id
  /\ conn[1].pkt.seq = 0 /\ conn[2].pkt.seq = 1
  /\ CounterMax(conn[2].pkt.id)
  /\ conn[3].pkt.id # conn[2].pkt.id
  /\ CounterHi(conn[3].pkt.id) = 0 /\ CounterLo(conn[3].pkt.id) = 0

\* On the wire of the "mux" client just made: the two chunks of one message,
\* then the first chunk of the message with the next, higher counter.
C18_WitnessIncreasing ==
  /\ variant = "mux"
  /\ Len(conn) >= 3
  /\ conn[1].pkt.id = conn[2].pkt.id
  /\ conn[1].pkt.seq = 0 /\ conn[2].pkt.seq = 1
  /\ conn[3].pkt.id # conn[2].pkt.id
  /\ CounterLess(conn[2].pkt.id, conn[3].pkt.id)

\* ---------------------------------------------------------------- C19
\* The calls made on the underlying writer with the bytes of request r.
UwCallsOf(r) == uw[r]

\* The workers between receiving a request and handing back its result.
Busy == { k \in Workers : kpc[k] \in {"write", "flush", "reply"} }

\* C19: every request of writer.Write is received by exactly one worker and
\* gets exactly one result, on its own resCh, and that result is the
\* (n, err) of the write of its own bytes to the underlying writer, not one
\* of another request or of an earlier turn; never more than `capacity`
\* requests are being processed.
C19_OwnResult ==
  /\ \A r \in Requests : Cardinality(taken[r]) <= 1 /\ Len(given[r]) <= 1
  /\ \A c \in Callers :
       cpc[c] = "ret" =>
         LET r == carg[c].p.req
             ws == UwCallsOf(r)
         IN /\ Cardinality(taken[r]) = 1
            /\ given[r] = <<cres[c]>>
            /\ Len(ws) = 1
            /\ ws[1].p = carg[c].p
            /\ cres[c] = ws[1].res
  /\ Cardinality(Busy) <= capacity
  /\ Cardinality({ r \in Requests : taken[r] # {} /\ given[r] = <<>> })
       <= capacity

\* ---------------------------------------------------------------- C20
\* Every worker NewWriter started has left its loop: none waits on w.ch or
\* on a resCh.
AllExited ==
  \A k \in Workers : kpc[k] = (IF k <= capacity THEN "exit" ELSE "none")

\* C20, as it stands: with capacity >= 1, an underlying writer that returns
\* and a fair scheduler, every call of writer.Write issued before Close
\* (under way while Close is not yet called) returns, and a Close issued
\* once every call has returned ends unless a further call of Write
\* begins, and when it has ended every worker has exited and none waits
\* on w.ch or on a resCh.
C20_AsStated ==
  /\ \A c \in Callers :
       (capacity >= 1 /\ cpc[c] = "send" /\ closer = "idle")
         ~> (cpc[c] = "ret")
  /\ (capacity >= 1 /\ closer = "wait"
        /\ \A c \in Callers : cpc[c] \in {"idle", "ret"})
       ~> (closer = "closed" \/ \E c \in Callers : cpc[c] = "send")
  /\ [](closer = "closed" => AllExited)

====
